---- MODULE Spec2Model ----
(***************************************************************************)
(* Model of the OpenCode chat relay of opencode-docker:                    *)
(*   - the browser chat view of www/apps/web/app/routes/chat.tsx (its      *)
(*     React state, its SSE subscription effect and the onmessage /        *)
(*     onerror handlers),                                                  *)
(*   - the server-side API client of app/lib/opencode-api.server.ts and    *)
(*     the page controllers (loader / action) of chat.tsx and tasks.tsx,   *)
(*   - the Express workspace file backend (/files/:filename),              *)
(*   - the container entrypoint docker-entrypoint.sh.                      *)
(* Spec      is the chat view driven by loader data and SSE frames.        *)
(* SpecApi   is the page controllers and the API clients driven by         *)
(*           requests and by the answers of the external services.        *)
(* SpecFiles is the file backend serving overlapping HTTP requests.        *)
(* SpecEntry is one run of the entrypoint script.                          *)
(***************************************************************************)
EXTENDS Integers, Sequences, FiniteSets, TLC

VARIABLES
    mounted,         \* the Chat component is mounted
    query,           \* ?session= of the URL the mounted page was loaded with
    currentSession,  \* useLoaderData().currentSession (its id), or Null
    messages,        \* useState: MessageWithParts[]
    isStreaming,     \* useState: the "assistant is generating" flag
    openSources,     \* EventSource objects whose readyState is not CLOSED
    effectConn,      \* the EventSource held by the live SSE effect, 0 if none
    erroredFor,      \* session whose subscription onerror closed, while it stays displayed
    last,            \* what the last step did (history, read by the properties)
    lastCall,        \* the last API-client invocation and its outcome
    actionOut,       \* the last run of the route action and its outcome
    loaderOut,       \* the last run of a route loader and its outcome
    files,           \* /workspace: file name -> content, or Absent
    inflight,        \* file-backend handlers suspended at an await
    fileLast,        \* what the last file-backend step did (history)
    env,             \* what the entrypoint was started with
    entry,           \* the entrypoint run: position, file system, command
    navigation,      \* useNavigation(): state, and the form being submitted
    reported         \* what the service last reported on the displayed session's status

viewVars == <<mounted, query, currentSession, messages, isStreaming,
              openSources, effectConn>>
apiVars == <<lastCall, actionOut, loaderOut>>
backendVars == <<files, inflight, fileLast, env, entry>>
uiVars == <<navigation, reported>>
vars == <<mounted, query, currentSession, messages, isStreaming,
          openSources, effectConn, erroredFor, last,
          lastCall, actionOut, loaderOut,
          files, inflight, fileLast, env, entry, navigation, reported>>

(***************************************************************************)
(* Bounds of the model.                                                    *)
(***************************************************************************)
MaxParts == 1        \* longest part list carried by an event
MaxTextLen == 5      \* longest text a part is allowed to grow to
MaxInflight == 2     \* file-backend handlers suspended at the same time
MaxFileLen == 3      \* longest content a workspace file is allowed to grow to

(***************************************************************************)
(* Values.                                                                 *)
(***************************************************************************)
Null == "null"
Undefined == "undefined"
SessionIds == {"s1", "s2"}
MsgIds == {"m1", "m2"}
Roles == {"user", "assistant"}
StatusTypes == {"idle", "busy", "retry"}

TextPart(t) == [type |-> "text", text |-> t]
ToolPart(n) == [type |-> "tool", name |-> n]
PartVals == {TextPart("Hel"), ToolPart("bash")}
Deltas == {"lo", ""}
\* parts a message.part.updated frame can carry
IncomingParts == PartVals \cup {ToolPart("read")}

PartLists == UNION {[1..n -> PartVals] : n \in 0..MaxParts}

Message(i, s, r) == [id |-> i, sessionID |-> s, role |-> r]
Infos == {Message(i, s, r) : i \in MsgIds, s \in SessionIds, r \in Roles}

Has(r, f) == f \in DOMAIN r

DistinctIds(ms) ==
    \A i, j \in DOMAIN ms : ms[i].info.id = ms[j].info.id => i = j

\* the messages the external service stores for session s
Stored(s) ==
    {[info |-> Message("m1", s, "user"), parts |-> <<TextPart("Hel")>>],
     [info |-> Message("m2", s, "assistant"), parts |-> <<ToolPart("bash")>>]}

\* message histories the external service can return for session s
MessageLists(s) ==
    {ms \in UNION {[1..n -> Stored(s)] : n \in 0..Cardinality(MsgIds)} :
        DistinctIds(ms)}

(***************************************************************************)
(* SSE frames: data = { payload: { type, properties } }.                   *)
(***************************************************************************)
Frame(t, p) == [payload |-> [type |-> t, properties |-> p]]

MessageUpdatedEvents ==
    {Frame("message.updated", [info |-> i]) : i \in Infos}
    \cup {Frame("message.updated", [info |-> i, parts |-> ps]) :
            i \in Infos, ps \in PartLists}

MessagePartUpdatedEvents ==
    {Frame("message.part.updated", [messageID |-> m, part |-> p]) :
            m \in MsgIds, p \in IncomingParts}
    \cup {Frame("message.part.updated",
                [messageID |-> m, part |-> p, delta |-> d]) :
            m \in MsgIds, p \in IncomingParts, d \in Deltas}

SessionStatusEvents ==
    {Frame("session.status", [sessionID |-> s, status |-> [type |-> t]]) :
            s \in SessionIds, t \in StatusTypes}

OpenCodeEvent ==
    MessageUpdatedEvents \cup MessagePartUpdatedEvents \cup SessionStatusEvents

(***************************************************************************)
(* eventSource.onmessage                                                   *)
(***************************************************************************)
\* data.payload?.properties?.info?.sessionID
InfoSessionID(data) ==
    IF Has(data.payload.properties, "info")
    THEN data.payload.properties.info.sessionID
    ELSE Undefined

\* variant: the filter only requires the frame to carry a session id
PassesFilter_AnySession(data, sessionId) == InfoSessionID(data) # Undefined

\* the negation of the early return of the session filter
PassesFilter(data, sessionId) == InfoSessionID(data) = sessionId

\* parts || dflt   (an array, even an empty one, is truthy)
PartsOr(props, dflt) == IF Has(props, "parts") THEN props.parts ELSE dflt

\* variant: an update without parts clears the parts (parts || [])
MessageUpdated_DropParts(prev, props) ==
    IF \E i \in DOMAIN prev : prev[i].info.id = props.info.id
    THEN [i \in DOMAIN prev |->
            IF prev[i].info.id = props.info.id
            THEN [info |-> props.info, parts |-> PartsOr(props, <<>>)]
            ELSE prev[i]]
    ELSE Append(prev, [info |-> props.info, parts |-> PartsOr(props, <<>>)])

\* variant: a new message is put in front of the list
MessageUpdated_Prepend(prev, props) ==
    IF \E i \in DOMAIN prev : prev[i].info.id = props.info.id
    THEN [i \in DOMAIN prev |->
            IF prev[i].info.id = props.info.id
            THEN [info |-> props.info, parts |-> PartsOr(props, prev[i].parts)]
            ELSE prev[i]]
    ELSE <<[info |-> props.info, parts |-> PartsOr(props, <<>>)]>> \o prev

\* variant: every message.updated appends a record, known id or not
MessageUpdated_AlwaysAppend(prev, props) ==
    Append(prev, [info |-> props.info, parts |-> PartsOr(props, <<>>)])

\* variant: an updated message is moved behind the others
MessageUpdated_MoveToEnd(prev, props) ==
    IF \E i \in DOMAIN prev : prev[i].info.id = props.info.id
    THEN LET i == CHOOSE k \in DOMAIN prev : prev[k].info.id = props.info.id
         IN Append(SubSeq(prev, 1, i - 1) \o SubSeq(prev, i + 1, Len(prev)),
                   [info |-> props.info, parts |-> PartsOr(props, prev[i].parts)])
    ELSE Append(prev, [info |-> props.info, parts |-> PartsOr(props, <<>>)])

\* variant: an update that carries no parts clears the parts of a message
\* only the second time it is applied
MessageUpdated_InfoFirst(prev, props) ==
    IF \E i \in DOMAIN prev : prev[i].info.id = props.info.id
    THEN [i \in DOMAIN prev |->
            IF prev[i].info.id = props.info.id
            THEN [info |-> props.info,
                  parts |-> IF prev[i].info = props.info
                            THEN PartsOr(props, <<>>)
                            ELSE PartsOr(props, prev[i].parts)]
            ELSE prev[i]]
    ELSE Append(prev, [info |-> props.info, parts |-> PartsOr(props, <<>>)])

\* the updater passed to setMessages for message.updated
MessageUpdated(prev, props) ==
    IF \E i \in DOMAIN prev : prev[i].info.id = props.info.id
    THEN [i \in DOMAIN prev |->
            IF prev[i].info.id = props.info.id
            THEN [info |-> props.info, parts |-> PartsOr(props, prev[i].parts)]
            ELSE prev[i]]
    ELSE Append(prev, [info |-> props.info, parts |-> PartsOr(props, <<>>)])

\* Array.prototype.findIndex on the part types, 1-based, 0 when none matches
FindIndex(parts, type) ==
    IF \E i \in DOMAIN parts : parts[i].type = type
    THEN CHOOSE i \in DOMAIN parts :
            /\ parts[i].type = type
            /\ \A j \in DOMAIN parts : parts[j].type = type => i <= j
    ELSE 0

\* delta && ...   (undefined and the empty string are falsy)
Truthy(props) == Has(props, "delta") /\ props.delta # ""

\* variant: a part for an unknown message creates the message
MessagePartUpdated_Creates(prev, props) ==
    IF \E i \in DOMAIN prev : prev[i].info.id = props.messageID
    THEN prev
    ELSE Append(prev, [info |-> Message(props.messageID, "s1", "assistant"),
                       parts |-> <<props.part>>])

\* the updater passed to setMessages for message.part.updated
MessagePartUpdated(prev, props) ==
    [i \in DOMAIN prev |->
        IF prev[i].info.id = props.messageID
        THEN LET parts == prev[i].parts
                 partIndex == FindIndex(parts, props.part.type)
             IN IF partIndex > 0
                THEN IF Truthy(props) /\ parts[partIndex].type = "text"
                     THEN [prev[i] EXCEPT !.parts[partIndex].text =
                                                @ \o props.delta]
                     ELSE prev[i]
                ELSE [prev[i] EXCEPT !.parts = Append(parts, props.part)]
        ELSE prev[i]]

\* variant: a message.updated frame of an assistant message raises the flag
OnMessage_MessageSetsBusy(st, data, sessionId) ==
    IF ~PassesFilter(data, sessionId)
    THEN st
    ELSE LET t == data.payload.type
             p == data.payload.properties
             m1 == IF t = "message.updated"
                   THEN MessageUpdated(st.messages, p) ELSE st.messages
             m2 == IF t = "message.part.updated"
                   THEN MessagePartUpdated(m1, p) ELSE m1
             g == IF t = "session.status"
                  THEN p.status.type = "busy"
                  ELSE IF t = "message.updated"
                  THEN p.info.role = "assistant" \/ st.isStreaming
                  ELSE st.isStreaming
         IN [messages |-> m2, isStreaming |-> g]

\* variant: status frames are matched on properties.sessionID, and only a
\* busy report writes the flag
OnMessage_BusySticks(st, data, sessionId) ==
    IF data.payload.type = "session.status"
    THEN IF data.payload.properties.sessionID # sessionId
         THEN st
         ELSE [messages |-> st.messages,
               isStreaming |-> st.isStreaming
                                \/ data.payload.properties.status.type = "busy"]
    ELSE IF ~PassesFilter(data, sessionId)
    THEN st
    ELSE LET t == data.payload.type
             p == data.payload.properties
             m1 == IF t = "message.updated"
                   THEN MessageUpdated(st.messages, p) ELSE st.messages
             m2 == IF t = "message.part.updated"
                   THEN MessagePartUpdated(m1, p) ELSE m1
         IN [messages |-> m2, isStreaming |-> st.isStreaming]

\* the view state after onmessage ran for one frame; sessionId is the
\* currentSession.id captured by the handler's closure
OnMessage(st, data, sessionId) ==
    IF ~PassesFilter(data, sessionId)
    THEN st
    ELSE LET t == data.payload.type
             p == data.payload.properties
             m1 == IF t = "message.updated"
                   THEN MessageUpdated(st.messages, p) ELSE st.messages
             m2 == IF t = "message.part.updated"
                   THEN MessagePartUpdated(m1, p) ELSE m1
             g == IF t = "session.status"
                  THEN p.status.type = "busy" ELSE st.isStreaming
         IN [messages |-> m2, isStreaming |-> g]

TextsWithin(ms) ==
    \A i \in DOMAIN ms : \A k \in DOMAIN ms[i].parts :
        ms[i].parts[k].type = "text" => Len(ms[i].parts[k].text) <= MaxTextLen

(***************************************************************************)
(* The server-side API client (opencode-api.server.ts).                    *)
(***************************************************************************)
DEFAULT_DIRECTORY == "/workspace"
Titles == {"", "My chat"}
Texts == {"hi"}

\* what the external service (or the network) can answer to one request:
\* status 0 stands for a fetch() that rejects
Responses ==
    {[status |-> 200, body |-> "json"]}
    \cup {[status |-> st, body |-> b] : st \in {404, 500}, b \in {"", "not found"}}
    \cup {[status |-> 0, body |-> "fetch failed"]}

\* Response.ok
Ok(resp) == resp.status \in 200..299

\* `OpenCode API Error: ${response.status} - ${error}`
ApiErrorMessage(status, text) ==
    "OpenCode API Error: " \o ToString(status) \o " - " \o text

\* variant: a non-2xx answer is retried once before the call fails
opencodeRequest_Retry(endpoint, options, resp) ==
    LET req == [url |-> endpoint,
                directory |-> IF Has(options, "directory")
                              THEN options.directory ELSE DEFAULT_DIRECTORY,
                method |-> IF Has(options, "method") THEN options.method ELSE "GET",
                body |-> IF Has(options, "body") THEN options.body ELSE Undefined]
    IN [requests |-> IF resp.status # 0 /\ ~Ok(resp) THEN <<req, req>> ELSE <<req>>,
        response |-> resp,
        outcome |-> IF resp.status = 0
                    THEN [kind |-> "throw", message |-> resp.body]
                    ELSE IF ~Ok(resp)
                    THEN [kind |-> "throw",
                          message |-> ApiErrorMessage(resp.status, resp.body)]
                    ELSE [kind |-> "value", value |-> [json |-> resp.body]]]

\* one run of opencodeRequest against an answer of the service: the requests
\* it issued and what it returned or threw
opencodeRequest(endpoint, options, resp) ==
    LET req == [url |-> endpoint,
                directory |-> IF Has(options, "directory")
                              THEN options.directory ELSE DEFAULT_DIRECTORY,
                method |-> IF Has(options, "method") THEN options.method ELSE "GET",
                body |-> IF Has(options, "body") THEN options.body ELSE Undefined]
    IN [requests |-> <<req>>,
        response |-> resp,
        outcome |-> IF resp.status = 0
                    THEN [kind |-> "throw", message |-> resp.body]
                    ELSE IF ~Ok(resp)
                    THEN [kind |-> "throw",
                          message |-> ApiErrorMessage(resp.status, resp.body)]
                    ELSE [kind |-> "value", value |-> [json |-> resp.body]]]

listSessions(resp) == opencodeRequest(<<"/session">>, [x \in {} |-> x], resp)
createSession(data, resp) ==
    opencodeRequest(<<"/session">>, [method |-> "POST", body |-> data], resp)
getSession(sessionId, resp) ==
    opencodeRequest(<<"/session/", sessionId>>, [x \in {} |-> x], resp)
deleteSession(sessionId, resp) ==
    opencodeRequest(<<"/session/", sessionId>>, [method |-> "DELETE"], resp)
listMessages(sessionId, limit, resp) ==
    opencodeRequest(<<"/session/", sessionId, "/message">>, [x \in {} |-> x], resp)
sendMessage(sessionId, data, resp) ==
    opencodeRequest(<<"/session/", sessionId, "/message">>,
                    [method |-> "POST", body |-> data], resp)
listAgents(resp) == opencodeRequest(<<"/agent">>, [x \in {} |-> x], resp)
abortSession(sessionId, resp) ==
    opencodeRequest(<<"/session/", sessionId, "/abort">>, [method |-> "POST"], resp)

ApiOps == {"listSessions", "createSession", "getSession", "deleteSession",
           "listMessages", "sendMessage", "listAgents", "abortSession"}

SendMessageRequest(message) ==
    [model |-> [providerID |-> "anthropic",
                modelID |-> "claude-haiku-4-5-20251001"],
     agent |-> "build",
     parts |-> <<TextPart(message)>>]

\* the invocation of API-client operation op with the given arguments
Invoke(op, sessionId, title, text, resp) ==
    CASE op = "listSessions" -> listSessions(resp)
      [] op = "createSession" -> createSession([title |-> title], resp)
      [] op = "getSession" -> getSession(sessionId, resp)
      [] op = "deleteSession" -> deleteSession(sessionId, resp)
      [] op = "listMessages" -> listMessages(sessionId, 50, resp)
      [] op = "sendMessage" -> sendMessage(sessionId, SendMessageRequest(text), resp)
      [] op = "listAgents" -> listAgents(resp)
      [] op = "abortSession" -> abortSession(sessionId, resp)

(***************************************************************************)
(* The route action (chat.tsx).                                            *)
(***************************************************************************)
\* FormData.get: null when the field is absent
Get(formData, f) == IF Has(formData, f) THEN formData[f] ELSE Null

Forms ==
    {[intent |-> "create-session"]}
    \cup {[intent |-> "create-session", title |-> t] : t \in Titles}
    \cup {[intent |-> "send-message", sessionId |-> s, message |-> m] :
            s \in SessionIds, m \in Texts}
    \cup {[intent |-> "abort", sessionId |-> s] : s \in SessionIds}
    \cup {[intent |-> "delete"]}

Returned(call, payload) == [calls |-> <<call>>, kind |-> "returned", payload |-> payload]
Thrown(call) == [calls |-> <<call>>, kind |-> "thrown", message |-> call.outcome.message]

\* variant: send-message awaits sendMessage without a try/catch
action_SendBare(formData, resp) ==
    LET intent == Get(formData, "intent") IN
    IF intent = "create-session"
    THEN LET title == Get(formData, "title")
             call == createSession(
                        [title |-> IF title \in {Null, ""} THEN "New Chat" ELSE title],
                        resp)
         IN IF call.outcome.kind = "throw"
            THEN Thrown(call)
            ELSE Returned(call, [type |-> "session-created",
                                 session |-> call.outcome.value])
    ELSE IF intent = "send-message"
    THEN LET call == sendMessage(Get(formData, "sessionId"),
                                 SendMessageRequest(Get(formData, "message")), resp)
         IN IF call.outcome.kind = "throw"
            THEN Thrown(call)
            ELSE Returned(call, [type |-> "message-sent",
                                 message |-> call.outcome.value])
    ELSE IF intent = "abort"
    THEN LET call == abortSession(Get(formData, "sessionId"), resp)
         IN IF call.outcome.kind = "throw"
            THEN Thrown(call)
            ELSE Returned(call, [type |-> "aborted"])
    ELSE [calls |-> <<>>, kind |-> "returned", payload |-> [type |-> "unknown"]]

\* variant: only an absent title is defaulted (title ?? 'New Chat')
action_TitleNullish(formData, resp) ==
    LET intent == Get(formData, "intent") IN
    IF intent = "create-session"
    THEN LET title == Get(formData, "title")
             call == createSession(
                        [title |-> IF title = Null THEN "New Chat" ELSE title],
                        resp)
         IN IF call.outcome.kind = "throw"
            THEN Thrown(call)
            ELSE Returned(call, [type |-> "session-created",
                                 session |-> call.outcome.value])
    ELSE IF intent = "send-message"
    THEN LET call == sendMessage(Get(formData, "sessionId"),
                                 SendMessageRequest(Get(formData, "message")), resp)
         IN IF call.outcome.kind = "throw"
            THEN Returned(call, [type |-> "error", error |-> call.outcome.message])
            ELSE Returned(call, [type |-> "message-sent",
                                 message |-> call.outcome.value])
    ELSE IF intent = "abort"
    THEN LET call == abortSession(Get(formData, "sessionId"), resp)
         IN IF call.outcome.kind = "throw"
            THEN Thrown(call)
            ELSE Returned(call, [type |-> "aborted"])
    ELSE [calls |-> <<>>, kind |-> "returned", payload |-> [type |-> "unknown"]]

\* one run of action() for a submitted form, resp being the service's answer
\* to the API-client call it makes
action(formData, resp) ==
    LET intent == Get(formData, "intent") IN
    IF intent = "create-session"
    THEN LET title == Get(formData, "title")
             call == createSession(
                        [title |-> IF title \in {Null, ""} THEN "New Chat" ELSE title],
                        resp)
         IN IF call.outcome.kind = "throw"
            THEN Thrown(call)
            ELSE Returned(call, [type |-> "session-created",
                                 session |-> call.outcome.value])
    ELSE IF intent = "send-message"
    THEN LET call == sendMessage(Get(formData, "sessionId"),
                                 SendMessageRequest(Get(formData, "message")), resp)
         IN IF call.outcome.kind = "throw"
            THEN Returned(call, [type |-> "error", error |-> call.outcome.message])
            ELSE Returned(call, [type |-> "message-sent",
                                 message |-> call.outcome.value])
    ELSE IF intent = "abort"
    THEN LET call == abortSession(Get(formData, "sessionId"), resp)
         IN IF call.outcome.kind = "throw"
            THEN Thrown(call)
            ELSE Returned(call, [type |-> "aborted"])
    ELSE [calls |-> <<>>, kind |-> "returned", payload |-> [type |-> "unknown"]]

(***************************************************************************)
(* The route loaders (chat.tsx, tasks.tsx) and the tasks API client.       *)
(***************************************************************************)
Session(id) == [id |-> id, title |-> "New Chat"]

\* session lists the external service can return
SessionLists ==
    {ss \in UNION {[1..n -> {Session(x) : x \in SessionIds}] :
                        n \in 0..Cardinality(SessionIds)} :
        \A i, j \in DOMAIN ss : ss[i].id = ss[j].id => i = j}

Task(id) == [id |-> id, name |-> "task", done |-> FALSE]
TaskLists == {<<>>, <<Task(1)>>}

\* answers to a read request whose 200 body is one of bodies
ReadResponses(bodies) ==
    {[status |-> 200, body |-> b] : b \in bodies}
    \cup {r \in Responses : r.status # 200}

\* url.searchParams.get('session'): null when the parameter is absent
Queries == SessionIds \cup {Null, ""}

\* getEventStreamUrl()
getEventStreamUrl == <<"/event", DEFAULT_DIRECTORY>>

\* sessions.find((s) => s.id === sessionId) || null
Find(sessions, sessionId) ==
    IF \E i \in DOMAIN sessions : sessions[i].id = sessionId
    THEN sessions[CHOOSE i \in DOMAIN sessions :
                    /\ sessions[i].id = sessionId
                    /\ \A j \in DOMAIN sessions :
                            sessions[j].id = sessionId => i <= j]
    ELSE Null

\* one run of the chat loader for ?session=sessionId; r1 answers the
\* session-list request and r2 the message-history request
loader(sessionId, r1, r2) ==
    LET c1 == listSessions(r1) IN
    IF c1.outcome.kind = "throw"
    THEN [calls |-> <<c1>>, kind |-> "thrown", message |-> c1.outcome.message]
    ELSE LET sessions == c1.outcome.value.json IN
         IF sessionId \in {Null, ""}
         THEN [calls |-> <<c1>>, kind |-> "returned",
               payload |-> [sessions |-> sessions,
                            currentSession |-> Null,
                            messages |-> <<>>,
                            eventStreamUrl |-> getEventStreamUrl]]
         ELSE LET c2 == listMessages(sessionId, 50, r2) IN
              IF c2.outcome.kind = "throw"
              THEN [calls |-> <<c1, c2>>, kind |-> "thrown",
                    message |-> c2.outcome.message]
              ELSE [calls |-> <<c1, c2>>, kind |-> "returned",
                    payload |-> [sessions |-> sessions,
                                 currentSession |-> Find(sessions, sessionId),
                                 messages |-> c2.outcome.value.json,
                                 eventStreamUrl |-> getEventStreamUrl]]

\* Response.statusText
StatusText(status) ==
    CASE status = 404 -> "Not Found"
      [] status = 500 -> "Internal Server Error"
      [] OTHER -> "OK"

\* one run of apiRequest (the tasks API client) against an answer
apiRequest(endpoint, options, resp) ==
    [requests |-> <<[url |-> endpoint,
                     method |-> IF Has(options, "method")
                                THEN options.method ELSE "GET"]>>,
     response |-> resp,
     outcome |-> IF resp.status = 0
                 THEN [kind |-> "throw", message |-> resp.body]
                 ELSE IF ~Ok(resp)
                 THEN [kind |-> "throw",
                       message |-> "API Error: " \o ToString(resp.status)
                                    \o " " \o StatusText(resp.status)]
                 ELSE [kind |-> "value", value |-> [json |-> resp.body]]]

getTasks(resp) == apiRequest("/tasks", [x \in {} |-> x], resp)

\* one run of the tasks loader
tasksLoader(resp) ==
    LET call == getTasks(resp) IN
    IF call.outcome.kind = "throw"
    THEN [calls |-> <<call>>, kind |-> "returned", payload |-> [tasks |-> <<>>]]
    ELSE [calls |-> <<call>>, kind |-> "returned",
          payload |-> [tasks |-> call.outcome.value.json]]

(***************************************************************************)
(* The workspace file backend (Express): values and the synchronous part   *)
(* of each handler, up to its first await.                                 *)
(***************************************************************************)
FileNames == {"a.txt"}
Absent == [exists |-> FALSE]
File(c) == [exists |-> TRUE, content |-> c]

\* req.body as decoded by express.json(): content may be missing or null
Bodies ==
    {[x \in {} |-> x], [content |-> Null]}
    \cup {[content |-> c] : c \in {"", "x", "yz"}}

\* existsSync(join(WORKSPACE_PATH, filename))
existsSync(f) == files[f].exists

\* a handler answered: the request, the status, and the file it met
Respond(req, status, before) ==
    [kind |-> "respond", req |-> req, status |-> status, before |-> before,
     creates |-> IF req.method = "PUT" /\ status = 201 /\ fileLast.creates[req.filename] < 2
                 THEN [fileLast.creates EXCEPT ![req.filename] = @ + 1]
                 ELSE fileLast.creates]

\* the lowest handler id not in use
FreeId == CHOOSE i \in 1..(Cardinality(inflight) + 1) :
            /\ \A h \in inflight : h.id # i
            /\ \A j \in 1..(i - 1) : \E h \in inflight : h.id = j

\* the handler of req is suspended at `await readFile` / `await writeFile`
Suspend(req, pc, data) ==
    /\ Cardinality(inflight) < MaxInflight
    /\ inflight' = inflight \cup {[id |-> FreeId, req |-> req, pc |-> pc,
                                    data |-> data]}
    /\ fileLast' = [kind |-> "suspend", req |-> req,
                    creates |-> fileLast.creates]
    /\ UNCHANGED files

\* the handler of req answers without awaiting
Answer(req, status) ==
    /\ fileLast' = Respond(req, status, files[req.filename])
    /\ UNCHANGED <<files, inflight>>

(***************************************************************************)
(* The view: loader data, effects, SSE delivery.                           *)
(***************************************************************************)
\* what the loader can hand to the component for a given ?session=
LoaderData(q) ==
    IF q = Null
    THEN {[currentSession |-> Null, messages |-> <<>>]}
    ELSE {[currentSession |-> cs, messages |-> ms] :
            cs \in {q, Null}, ms \in MessageLists(q)}

\* the identity of a newly constructed EventSource: one that no object
\* still referenced has
NewSource ==
    CHOOSE c \in 1..(Cardinality(openSources) + 2) :
        /\ c # effectConn
        /\ \A src \in openSources : src.id # c
        /\ \A b \in 1..(c - 1) : b = effectConn \/ \E src \in openSources : src.id = b

\* cleanup of the previous SSE effect, then its body: subscribes when a
\* session is displayed
SseEffect(cs) ==
    IF cs = Null
    THEN /\ effectConn' = 0
         /\ openSources' = {src \in openSources : src.id # effectConn}
    ELSE /\ effectConn' = NewSource
         /\ openSources' = {src \in openSources : src.id # effectConn}
                             \cup {[id |-> NewSource, session |-> cs]}

\* Object.is on the effect's dependency: every loader result is a freshly
\* decoded object, so only null is identical to the previous value
SameDeps(old, new) == old = Null /\ new = Null

\* useNavigation() when nothing is pending
Idle == [state |-> "idle"]

Init ==
    /\ mounted = FALSE
    /\ query = Null
    /\ currentSession = Null
    /\ messages = <<>>
    /\ isStreaming = FALSE
    /\ openSources = {}
    /\ effectConn = 0
    /\ erroredFor = Null
    /\ last = [kind |-> "init"]
    /\ lastCall = [op |-> Null]
    /\ actionOut = [intent |-> Null]
    /\ loaderOut = [route |-> Null]
    /\ files = [f \in FileNames |-> Absent]
    /\ inflight = {}
    /\ fileLast = [kind |-> "init", creates |-> [f \in FileNames |-> 0]]
    /\ navigation = Idle
    /\ reported = Null
    /\ env = [key |-> "", argv |-> <<>>]
    /\ entry = [pc |-> "off"]

\* a page load of /chat?session=q renders the component
Mount(q, d) ==
    /\ ~mounted
    /\ mounted' = TRUE
    /\ query' = q
    /\ currentSession' = d.currentSession
    /\ messages' = d.messages
    /\ isStreaming' = FALSE
    /\ SseEffect(d.currentSession)
    /\ erroredFor' = Null
    /\ last' = [kind |-> "mount", loaded |-> d.messages]
    /\ navigation' = Idle
    /\ reported' = Null
    /\ UNCHANGED apiVars
    /\ UNCHANGED backendVars

\* variant: the list is only the initial value of useState, no effect
\* copies later loader data into it
Revalidate_KeepLocal(d) ==
    /\ mounted
    /\ currentSession' = d.currentSession
    /\ messages' = messages
    /\ IF SameDeps(currentSession, d.currentSession)
       THEN UNCHANGED <<openSources, effectConn>>
       ELSE SseEffect(d.currentSession)
    /\ erroredFor' = IF d.currentSession = currentSession THEN erroredFor ELSE Null
    /\ last' = [kind |-> "revalidate", session |-> currentSession,
                conn |-> effectConn, loaded |-> d.messages,
                local |-> messages]
    /\ navigation' = Idle
    /\ UNCHANGED <<mounted, query, isStreaming, reported>>
    /\ UNCHANGED apiVars
    /\ UNCHANGED backendVars

\* the loader re-ran for the same URL (after an action) and new data arrived
Revalidate(d) ==
    /\ mounted
    /\ currentSession' = d.currentSession
    /\ messages' = d.messages
    /\ IF SameDeps(currentSession, d.currentSession)
       THEN UNCHANGED <<openSources, effectConn>>
       ELSE SseEffect(d.currentSession)
    /\ erroredFor' = IF d.currentSession = currentSession THEN erroredFor ELSE Null
    /\ last' = [kind |-> "revalidate", session |-> currentSession,
                conn |-> effectConn, loaded |-> d.messages,
                local |-> messages]
    /\ navigation' = Idle
    /\ UNCHANGED <<mounted, query, isStreaming, reported>>
    /\ UNCHANGED apiVars
    /\ UNCHANGED backendVars

\* the page is left: effect cleanups run and the component state is dropped
Unmount ==
    /\ mounted
    /\ mounted' = FALSE
    /\ query' = Null
    /\ currentSession' = Null
    /\ messages' = <<>>
    /\ isStreaming' = FALSE
    /\ openSources' = {src \in openSources : src.id # effectConn}
    /\ effectConn' = 0
    /\ erroredFor' = Null
    /\ last' = [kind |-> "unmount"]
    /\ navigation' = Idle
    /\ reported' = Null
    /\ UNCHANGED apiVars
    /\ UNCHANGED backendVars

\* one SSE frame is delivered to an EventSource that is not closed; `last`
\* then records the frame and the state it met, until Render drops it.
\* `reported` belongs to the service and is set by the step that delivers
Deliver(src, data) ==
    /\ src \in openSources
    /\ last.kind # "deliver"
    /\ LET st == OnMessage([messages |-> messages, isStreaming |-> isStreaming],
                           data, src.session)
       IN /\ TextsWithin(st.messages)
          /\ messages' = st.messages
          /\ isStreaming' = st.isStreaming
    /\ last' = [kind |-> "deliver", data |-> data, src |-> src,
                messages |-> messages, isStreaming |-> isStreaming,
                afterInvalid |-> last.kind = "invalid" /\ last.src = src]
    /\ UNCHANGED <<mounted, query, currentSession, openSources, effectConn,
                   erroredFor, navigation>>
    /\ UNCHANGED apiVars
    /\ UNCHANGED backendVars

\* the component re-renders with the state the handler set
Render ==
    /\ last.kind = "deliver"
    /\ last' = [kind |-> "render"]
    /\ UNCHANGED <<erroredFor>>
    /\ UNCHANGED viewVars
    /\ UNCHANGED apiVars
    /\ UNCHANGED backendVars
    /\ UNCHANGED uiVars

\* eventSource.onerror: the connection is closed
OnError(src) ==
    /\ src \in openSources
    /\ openSources' = openSources \ {src}
    /\ erroredFor' = src.session
    /\ last' = [kind |-> "error"]
    /\ UNCHANGED <<mounted, query, currentSession, messages, isStreaming,
                   effectConn>>
    /\ UNCHANGED apiVars
    /\ UNCHANGED backendVars
    /\ UNCHANGED uiVars

Next ==
    \/ \E q \in SessionIds \cup {Null} : \E d \in LoaderData(q) : Mount(q, d)
    \/ \E d \in LoaderData(query) : Revalidate(d)
    \/ Unmount
    \/ \E src \in openSources : \E data \in OpenCodeEvent :
            Deliver(src, data) /\ UNCHANGED reported
    \/ Render
    \/ \E src \in openSources : OnError(src)

Spec == Init /\ [][Next]_vars

(***************************************************************************)
(* The page controller and the API client, driven by requests.             *)
(***************************************************************************)
\* server code invokes one API-client operation
ApiCall(op, sessionId, title, text, resp) ==
    /\ lastCall' = [op |-> op] @@ Invoke(op, sessionId, title, text, resp)
    /\ UNCHANGED <<actionOut, loaderOut, last, erroredFor>>
    /\ UNCHANGED viewVars
    /\ UNCHANGED backendVars
    /\ UNCHANGED uiVars

\* a form is posted to the route and action() runs
Action(formData, resp) ==
    /\ actionOut' = [intent |-> formData.intent, formData |-> formData]
                        @@ action(formData, resp)
    /\ UNCHANGED <<lastCall, loaderOut, last, erroredFor>>
    /\ UNCHANGED viewVars
    /\ UNCHANGED backendVars
    /\ UNCHANGED uiVars

NextApi ==
    \/ \E op \in ApiOps, s \in SessionIds, t \in Titles, m \in Texts,
          resp \in Responses : ApiCall(op, s, t, m, resp)
    \/ \E f \in Forms, resp \in Responses : Action(f, resp)

SpecApi == Init /\ [][NextApi]_vars

\* GET /chat?session=q is served: the chat loader runs
Loader(q, r1, r2) ==
    /\ loaderOut' = [route |-> "chat", query |-> q] @@ loader(q, r1, r2)
    /\ UNCHANGED <<lastCall, actionOut, last, erroredFor>>
    /\ UNCHANGED viewVars
    /\ UNCHANGED backendVars
    /\ UNCHANGED uiVars

\* GET /tasks is served: the tasks loader runs
TasksLoader(resp) ==
    /\ loaderOut' = [route |-> "tasks"] @@ tasksLoader(resp)
    /\ UNCHANGED <<lastCall, actionOut, last, erroredFor>>
    /\ UNCHANGED viewVars
    /\ UNCHANGED backendVars
    /\ UNCHANGED uiVars

NextLoader ==
    \/ \E q \in Queries, r1 \in ReadResponses(SessionLists) :
        \E r2 \in ReadResponses(IF q \in SessionIds
                                 THEN MessageLists(q) ELSE {<<>>}) :
            Loader(q, r1, r2)
    \/ \E resp \in ReadResponses(TaskLists) : TasksLoader(resp)

SpecLoader == Init /\ [][NextLoader]_vars

(***************************************************************************)
(* The view with its forms: what is rendered, submissions, the navigation  *)
(* state, frames that are not JSON.                                        *)
(***************************************************************************)
\* event.data values JSON.parse rejects
InvalidData == {"not json"}

\* frames delivered while the forms are exercised
UiStatusTypes == {"idle", "busy"}
UiEvents ==
    {Frame("session.status", [sessionID |-> s, status |-> [type |-> t]]) :
            s \in SessionIds, t \in UiStatusTypes}
    \cup {Frame("message.updated", [info |-> Message("m1", s, "assistant")]) :
            s \in SessionIds}

\* const isSubmitting = navigation.state === 'submitting'
isSubmitting == navigation.state = "submitting"

\* {currentSession && isStreaming && ( <Form> ... Stop ... </Form> )}
StopOffered == currentSession # Null /\ isStreaming

\* disabled={isSubmitting || isStreaming} on the message input and Send
SendDisabled == isSubmitting \/ isStreaming

\* the forms the rendered page lets the user submit, with their fields
RenderedForms ==
    (IF ~isSubmitting
     THEN {[intent |-> "create-session", title |-> "New Chat"]} ELSE {})
    \cup (IF currentSession # Null /\ ~SendDisabled
          THEN {[intent |-> "send-message", sessionId |-> currentSession,
                 message |-> m] : m \in Texts}
          ELSE {})
    \cup (IF StopOffered
          THEN {[intent |-> "abort", sessionId |-> currentSession]} ELSE {})

\* the status the service reports for the displayed session, as carried by
\* the frame data on src
Reported(src, data) ==
    IF /\ data.payload.type = "session.status"
       /\ src.session = currentSession
       /\ data.payload.properties.sessionID = currentSession
    THEN IF data.payload.properties.status.type = "idle" /\ reported = "busy"
         THEN "idle after busy"
         ELSE data.payload.properties.status.type
    ELSE reported

\* the user submits a rendered form: the navigation becomes "submitting"
Submit(formData) ==
    /\ mounted
    /\ formData \in RenderedForms
    /\ navigation' = [state |-> "submitting", formData |-> formData]
    /\ last' = [kind |-> "submit", formData |-> formData,
                isStreaming |-> isStreaming]
    /\ UNCHANGED <<erroredFor, reported>>
    /\ UNCHANGED viewVars
    /\ UNCHANGED apiVars
    /\ UNCHANGED backendVars

\* action() has run for the submitted form and its outcome reached the page:
\* a thrown error replaces the route element by the error element, a
\* session-created result assigns window.location.href (a page load), any
\* other result starts the revalidation
ActionDone(resp) ==
    /\ mounted
    /\ isSubmitting
    /\ LET out == action(navigation.formData, resp)
           leaves == IF out.kind = "thrown"
                     THEN TRUE
                     ELSE out.payload.type = "session-created"
       IN /\ last' = [kind |-> "action", formData |-> navigation.formData,
                      out |-> out, messages |-> messages,
                      isStreaming |-> isStreaming, left |-> leaves]
          /\ IF leaves
             THEN /\ mounted' = FALSE
                  /\ query' = Null
                  /\ currentSession' = Null
                  /\ messages' = <<>>
                  /\ isStreaming' = FALSE
                  /\ openSources' = {src \in openSources : src.id # effectConn}
                  /\ effectConn' = 0
                  /\ erroredFor' = Null
                  /\ navigation' = Idle
                  /\ reported' = Null
             ELSE /\ navigation' = [state |-> "loading"]
                  /\ UNCHANGED <<erroredFor, reported>>
                  /\ UNCHANGED viewVars
    /\ UNCHANGED apiVars
    /\ UNCHANGED backendVars

\* variant: a frame that is not JSON closes the EventSource
DeliverInvalid_Closes(src, text) ==
    /\ src \in openSources
    /\ text \in InvalidData
    /\ openSources' = openSources \ {src}
    /\ last' = [kind |-> "invalid", src |-> src, messages |-> messages,
                isStreaming |-> isStreaming]
    /\ UNCHANGED <<mounted, query, currentSession, messages, isStreaming,
                   effectConn, erroredFor>>
    /\ UNCHANGED apiVars
    /\ UNCHANGED backendVars
    /\ UNCHANGED uiVars

\* a frame whose data is not JSON is delivered: JSON.parse throws in the
\* first statement of onmessage, nothing catches it, no setter is called
DeliverInvalid(src, text) ==
    /\ src \in openSources
    /\ text \in InvalidData
    /\ last' = [kind |-> "invalid", src |-> src, messages |-> messages,
                isStreaming |-> isStreaming]
    /\ UNCHANGED erroredFor
    /\ UNCHANGED viewVars
    /\ UNCHANGED apiVars
    /\ UNCHANGED backendVars
    /\ UNCHANGED uiVars

NextUi ==
    \/ \E q \in SessionIds \cup {Null} : \E d \in LoaderData(q) : Mount(q, d)
    \/ \E d \in LoaderData(query) :
            navigation.state = "loading" /\ Revalidate(d)
    \/ Unmount
    \/ \E src \in openSources : \E data \in UiEvents :
            Deliver(src, data) /\ reported' = Reported(src, data)
    \/ \E src \in openSources : \E text \in InvalidData :
            DeliverInvalid(src, text)
    \/ Render
    \/ \E src \in openSources : OnError(src)
    \/ \E f \in RenderedForms : Submit(f)
    \/ \E resp \in Responses : ActionDone(resp)

SpecUi == Init /\ [][NextUi]_vars

\* the service answers every request of the route action, or the fetch fails
SpecUiFair == SpecUi /\ WF_vars(\E resp \in Responses : ActionDone(resp))

\* abort forms any client can post to the route
AbortForms == {[intent |-> "abort", sessionId |-> s] : s \in SessionIds}

\* the displayed chat while abort forms are posted to the route
NextAbort ==
    \/ \E q \in SessionIds \cup {Null} : \E d \in LoaderData(q) : Mount(q, d)
    \/ Unmount
    \/ \E src \in openSources : \E data \in UiEvents :
            Deliver(src, data) /\ UNCHANGED reported
    \/ Render
    \/ \E src \in openSources : OnError(src)
    \/ \E f \in AbortForms, resp \in Responses : Action(f, resp)

SpecAbort == Init /\ [][NextAbort]_vars

(***************************************************************************)
(* The file backend serving requests.  A handler runs to its first await,  *)
(* other handlers may run while it is suspended.                           *)
(***************************************************************************)
FilesFrame ==
    /\ UNCHANGED <<env, entry, last, erroredFor>>
    /\ UNCHANGED viewVars
    /\ UNCHANGED apiVars
    /\ UNCHANGED uiVars

FileReq(method, f, body) == [method |-> method, filename |-> f, body |-> body]

\* app.get("/files/:filename")
GetFile(f) ==
    LET req == FileReq("GET", f, [x \in {} |-> x]) IN
    /\ IF ~existsSync(f) THEN Answer(req, 404) ELSE Suspend(req, "read", "")
    /\ FilesFrame

\* app.post("/files/:filename"): !content && content !== ""
PostFile(f, body) ==
    LET req == FileReq("POST", f, body) IN
    /\ IF ~Has(body, "content") \/ body.content = Null
       THEN Answer(req, 400)
       ELSE Suspend(req, "write", body.content)
    /\ FilesFrame

\* app.patch("/files/:filename"): !content
PatchFile(f, body) ==
    LET req == FileReq("PATCH", f, body) IN
    /\ IF ~Has(body, "content") \/ body.content \in {Null, ""}
       THEN Answer(req, 400)
       ELSE IF existsSync(f)
       THEN Suspend(req, "read", "")
       ELSE Suspend(req, "write", "" \o body.content)
    /\ FilesFrame

\* app.put("/files/:filename"): const { content = "" } = req.body
PutFile(f, body) ==
    LET req == FileReq("PUT", f, body)
        content == IF Has(body, "content") THEN body.content ELSE ""
    IN /\ IF existsSync(f) THEN Answer(req, 409) ELSE Suspend(req, "write", content)
       /\ FilesFrame

\* `await readFile` of handler h settles
ReadDone(h, ok) ==
    /\ h \in inflight
    /\ h.pc = "read"
    /\ UNCHANGED files
    /\ FilesFrame
    /\ IF ~ok \/ ~files[h.req.filename].exists
       THEN /\ inflight' = inflight \ {h}
            /\ fileLast' = Respond(h.req, 500, files[h.req.filename])
       ELSE IF h.req.method = "GET"
       THEN /\ inflight' = inflight \ {h}
            /\ fileLast' = Respond(h.req, 200, files[h.req.filename])
       ELSE /\ Len(files[h.req.filename].content \o h.req.body.content) <= MaxFileLen
            /\ inflight' = (inflight \ {h}) \cup
                    {[h EXCEPT !.pc = "write",
                               !.data = files[h.req.filename].content
                                            \o h.req.body.content]}
            /\ fileLast' = [kind |-> "suspend", req |-> h.req,
                            creates |-> fileLast.creates]

\* the status of a successful write
Written(method) == IF method = "PUT" THEN 201 ELSE 200

\* `await writeFile` of handler h settles; writing null is rejected
WriteDone(h, ok) ==
    /\ h \in inflight
    /\ h.pc = "write"
    /\ inflight' = inflight \ {h}
    /\ FilesFrame
    /\ IF ~ok \/ h.data = Null
       THEN /\ files' = files
            /\ fileLast' = Respond(h.req, 500, files[h.req.filename])
       ELSE /\ files' = [files EXCEPT ![h.req.filename] = File(h.data)]
            /\ fileLast' = Respond(h.req, Written(h.req.method),
                                   files[h.req.filename])

NextFiles ==
    \/ \E f \in FileNames : GetFile(f)
    \/ \E f \in FileNames, body \in Bodies : PostFile(f, body)
    \/ \E f \in FileNames, body \in Bodies : PatchFile(f, body)
    \/ \E f \in FileNames, body \in Bodies : PutFile(f, body)
    \/ \E h \in inflight, ok \in BOOLEAN : ReadDone(h, ok)
    \/ \E h \in inflight, ok \in BOOLEAN : WriteDone(h, ok)

SpecFiles == Init /\ [][NextFiles]_vars

(***************************************************************************)
(* docker-entrypoint.sh, run by bash under `set -e`.  entry.pc is the       *)
(* command about to run; each command may fail.                            *)
(***************************************************************************)
ApiKeys == {"", "sk-ant-1"}
Commands == {<<>>, <<"opencode", "serve">>}
Owners == {"root", "node"}

\* auth.json as the container's volume may already hold it
AuthFiles ==
    {Absent,
     [exists |-> TRUE, owner |-> "root", mode |-> 644, key |-> "sk-old"],
     [exists |-> TRUE, owner |-> "node", mode |-> 600, key |-> "sk-old"]}

\* /home/node/.local/share/opencode
AuthDirs == {Absent} \cup {[exists |-> TRUE, owner |-> o] : o \in Owners}

\* the command the script execs, once it runs
NotStarted == [started |-> FALSE]
Started(user, argv) == [started |-> TRUE, user |-> user, argv |-> argv]

\* the container is started as root with a key, a command and a file system
InitEntry ==
    /\ mounted = FALSE
    /\ query = Null
    /\ currentSession = Null
    /\ messages = <<>>
    /\ isStreaming = FALSE
    /\ openSources = {}
    /\ effectConn = 0
    /\ erroredFor = Null
    /\ last = [kind |-> "init"]
    /\ lastCall = [op |-> Null]
    /\ actionOut = [intent |-> Null]
    /\ loaderOut = [route |-> Null]
    /\ files = [f \in FileNames |-> Absent]
    /\ inflight = {}
    /\ fileLast = [kind |-> "init", creates |-> [f \in FileNames |-> 0]]
    /\ navigation = Idle
    /\ reported = Null
    /\ \E key \in ApiKeys, argv \in Commands, o \in Owners,
          dir \in AuthDirs, auth \in AuthFiles :
            /\ auth.exists => dir.exists
            /\ env = [key |-> key, argv |-> argv, workspace |-> o,
                      dir |-> dir, auth |-> auth]
            /\ entry = [pc |-> "chown_workspace", user |-> "root",
                        workspace |-> o, dir |-> dir, auth |-> auth,
                        failed |-> Null, command |-> NotStarted]

\* variant: the script runs without `set -e`
AfterFailure_NoErrexit(e, step, next) == [e EXCEPT !.pc = next, !.failed = step]

\* set -e: a command that fails ends the script
AfterFailure(e, step, next) == [e EXCEPT !.pc = "exited", !.failed = step]

EntryFrame ==
    /\ UNCHANGED <<env, files, inflight, fileLast, last, erroredFor>>
    /\ UNCHANGED viewVars
    /\ UNCHANGED apiVars
    /\ UNCHANGED uiVars

\* chown -R node:node /workspace
ChownWorkspace(ok) ==
    /\ entry.pc = "chown_workspace"
    /\ entry' = IF ok
                THEN [entry EXCEPT !.pc = "test_key", !.workspace = "node"]
                ELSE AfterFailure(entry, "chown_workspace", "test_key")
    /\ EntryFrame

\* if [ -n "$ANTHROPIC_API_KEY" ]
TestKey ==
    /\ entry.pc = "test_key"
    /\ entry' = [entry EXCEPT !.pc = IF env.key # "" THEN "mkdir" ELSE "exec"]
    /\ EntryFrame

\* mkdir -p /home/node/.local/share/opencode
Mkdir(ok) ==
    /\ entry.pc = "mkdir"
    /\ entry' = IF ok
                THEN [entry EXCEPT !.pc = "cat",
                                   !.dir = IF entry.dir.exists THEN entry.dir
                                           ELSE [exists |-> TRUE,
                                                 owner |-> entry.user]]
                ELSE AfterFailure(entry, "mkdir", "cat")
    /\ EntryFrame

\* cat > auth.json <<EOF: creates the file (umask 022) or truncates it
Cat(ok) ==
    /\ entry.pc = "cat"
    /\ entry' = IF ok /\ entry.dir.exists
                THEN [entry EXCEPT !.pc = "chown_auth",
                                   !.auth = IF entry.auth.exists
                                            THEN [entry.auth EXCEPT !.key = env.key]
                                            ELSE [exists |-> TRUE,
                                                  owner |-> entry.user,
                                                  mode |-> 644,
                                                  key |-> env.key]]
                ELSE AfterFailure(entry, "cat", "chown_auth")
    /\ EntryFrame

\* chown -R node:node /home/node/.local/share/opencode
ChownAuth(ok) ==
    /\ entry.pc = "chown_auth"
    /\ entry' = IF ok /\ entry.dir.exists
                THEN [entry EXCEPT !.pc = "chmod",
                                   !.dir = [entry.dir EXCEPT !.owner = "node"],
                                   !.auth = IF entry.auth.exists
                                            THEN [entry.auth EXCEPT !.owner = "node"]
                                            ELSE entry.auth]
                ELSE AfterFailure(entry, "chown_auth", "chmod")
    /\ EntryFrame

\* chmod 600 auth.json
Chmod(ok) ==
    /\ entry.pc = "chmod"
    /\ entry' = IF ok /\ entry.auth.exists
                THEN [entry EXCEPT !.pc = "exec",
                                   !.auth = [entry.auth EXCEPT !.mode = 600]]
                ELSE AfterFailure(entry, "chmod", "exec")
    /\ EntryFrame

\* exec gosu node "$@": the shell is replaced by the command run as node;
\* without a command, or when the exec fails, the shell exits
Exec(ok) ==
    /\ entry.pc = "exec"
    /\ entry' = IF ok /\ env.argv # <<>>
                THEN [entry EXCEPT !.pc = "running", !.user = "node",
                                   !.command = Started("node", env.argv)]
                ELSE [entry EXCEPT !.pc = "exited"]
    /\ EntryFrame

NextEntry ==
    \/ \E ok \in BOOLEAN : ChownWorkspace(ok)
    \/ TestKey
    \/ \E ok \in BOOLEAN : Mkdir(ok)
    \/ \E ok \in BOOLEAN : Cat(ok)
    \/ \E ok \in BOOLEAN : ChownAuth(ok)
    \/ \E ok \in BOOLEAN : Chmod(ok)
    \/ \E ok \in BOOLEAN : Exec(ok)

SpecEntry == InitEntry /\ [][NextEntry]_vars

(***************************************************************************)
(* Properties of the SSE reconciliation (checked under Spec).  After a     *)
(* delivery, last.data is the frame, last.src the connection, and          *)
(* last.messages / last.isStreaming the state the handler met.             *)
(***************************************************************************)
Delivered == last.kind = "deliver"
EvType == last.data.payload.type
EvProps == last.data.payload.properties
IdsOf(ms) == {ms[i].info.id : i \in DOMAIN ms}

\* a message.updated frame for the open session was handled last
UpdatedForOpenSession ==
    /\ Delivered
    /\ EvType = "message.updated"
    /\ currentSession # Null
    /\ EvProps.info.sessionID = currentSession

\* C1: a message.updated for the open session whose info.id is already in
\* the list replaces that message's info, replaces its parts only when the
\* event carried parts, and leaves every other message as it was.
C1_UpdateExisting ==
    (UpdatedForOpenSession /\ EvProps.info.id \in IdsOf(last.messages)) =>
        /\ Len(messages) = Len(last.messages)
        /\ \A i \in DOMAIN last.messages :
            IF last.messages[i].info.id = EvProps.info.id
            THEN /\ messages[i].info = EvProps.info
                 /\ messages[i].parts = IF Has(EvProps, "parts")
                                        THEN EvProps.parts
                                        ELSE last.messages[i].parts
            ELSE messages[i] = last.messages[i]

\* a partial update (no parts) changed the info of a message that has parts,
\* next to another message
C1_Witness ==
    /\ UpdatedForOpenSession
    /\ ~Has(EvProps, "parts")
    /\ Len(last.messages) = 2
    /\ \E i \in DOMAIN last.messages :
        /\ last.messages[i].info.id = EvProps.info.id
        /\ last.messages[i].info # EvProps.info
        /\ last.messages[i].parts # <<>>

\* C2: a message.updated for the open session whose info.id is not in the
\* list appends exactly one record {info, parts}, parts defaulting to <<>>.
C2_AppendNew ==
    (UpdatedForOpenSession /\ EvProps.info.id \notin IdsOf(last.messages)) =>
        messages = Append(last.messages,
                          [info |-> EvProps.info,
                           parts |-> IF Has(EvProps, "parts")
                                     THEN EvProps.parts ELSE <<>>])

\* the scenario: session s1 with no message receives m1 with one text part
C2_Witness ==
    /\ UpdatedForOpenSession
    /\ currentSession = "s1"
    /\ last.messages = <<>>
    /\ messages = <<[info |-> Message("m1", "s1", "assistant"),
                     parts |-> <<TextPart("Hel")>>]>>

\* C3: a message.part.updated with a delta for a local message that has a
\* text part makes that text the prior text followed by the delta and
\* changes nothing else.
C3_DeltaConcatenated ==
    (/\ Delivered
     /\ EvType = "message.part.updated"
     /\ last.src.session = currentSession
     /\ Has(EvProps, "delta")
     /\ EvProps.part.type = "text"
     /\ \E i \in DOMAIN last.messages :
            /\ last.messages[i].info.id = EvProps.messageID
            /\ FindIndex(last.messages[i].parts, "text") > 0) =>
        /\ Len(messages) = Len(last.messages)
        /\ isStreaming = last.isStreaming
        /\ \A i \in DOMAIN last.messages :
            IF last.messages[i].info.id = EvProps.messageID
            THEN LET k == FindIndex(last.messages[i].parts, "text")
                 IN /\ messages[i].info = last.messages[i].info
                    /\ Len(messages[i].parts) = Len(last.messages[i].parts)
                    /\ \A j \in DOMAIN last.messages[i].parts :
                        IF j = k
                        THEN messages[i].parts[j] =
                                TextPart(last.messages[i].parts[j].text
                                            \o EvProps.delta)
                        ELSE messages[i].parts[j] = last.messages[i].parts[j]
            ELSE messages[i] = last.messages[i]

\* C4: a session.status for the open session sets the generating flag to
\* (status.type = "busy"), whatever the flag was.
C4_StatusSetsFlag ==
    (/\ Delivered
     /\ EvType = "session.status"
     /\ currentSession # Null
     /\ EvProps.sessionID = currentSession) =>
        isStreaming = (EvProps.status.type = "busy")

\* the session id a frame carries: properties.info.sessionID or
\* properties.sessionID
EmbeddedSessionID(data) ==
    IF Has(data.payload.properties, "info")
    THEN data.payload.properties.info.sessionID
    ELSE IF Has(data.payload.properties, "sessionID")
    THEN data.payload.properties.sessionID
    ELSE Undefined

\* C5: a frame whose embedded session id is not the open session's id changes
\* neither the message list nor the generating flag.
C5_OtherSessionIgnored ==
    (/\ Delivered
     /\ EmbeddedSessionID(last.data) # Undefined
     /\ EmbeddedSessionID(last.data) # currentSession) =>
        /\ messages = last.messages
        /\ isStreaming = last.isStreaming

\* a message.updated of another session, for a message id the list holds
\* and with other parts, arrived on the open session's connection
C5_Witness ==
    /\ Delivered
    /\ EvType = "message.updated"
    /\ currentSession # Null
    /\ EvProps.info.sessionID # currentSession
    /\ Has(EvProps, "parts")
    /\ \E i \in DOMAIN last.messages :
        /\ last.messages[i].info.id = EvProps.info.id
        /\ last.messages[i].parts # EvProps.parts

\* C6: every frame that belongs to the open session is applied, for the
\* three kinds: message.updated, message.part.updated and session.status.
C6_OwnEventsApplied ==
    (Delivered /\ last.src.session = currentSession) =>
        /\ (EvType = "message.updated" /\ EvProps.info.sessionID = currentSession)
            => messages = MessageUpdated(last.messages, EvProps)
        /\ (EvType = "message.part.updated"
                /\ EvProps.messageID \in IdsOf(last.messages))
            => messages = MessagePartUpdated(last.messages, EvProps)
        /\ (EvType = "session.status" /\ EvProps.sessionID = currentSession)
            => isStreaming = (EvProps.status.type = "busy")

\* C7: an EventSource is open only while a session is displayed, at most one
\* is open, it belongs to the displayed session, and a loader revalidation
\* that returns the same session keeps the subscription it found.
C7_OneSubscriptionPerSession ==
    /\ openSources # {} => (mounted /\ currentSession # Null)
    /\ Cardinality(openSources) <= 1
    /\ \A src \in openSources : src.session = currentSession
    /\ (last.kind = "revalidate" /\ last.session # Null
            /\ last.session = currentSession) => effectConn = last.conn

\* C8: once onerror closed the subscription, and while the same session stays
\* displayed in the same mounted view, no EventSource is open again and no
\* frame changes the message list or the generating flag.
C8_NoReopenAfterError ==
    (mounted /\ erroredFor # Null /\ erroredFor = currentSession) =>
        /\ openSources = {}
        /\ Delivered => (messages = last.messages /\ isStreaming = last.isStreaming)

(***************************************************************************)
(* Properties of the API client and the route action (under SpecApi).      *)
(***************************************************************************)
\* the string s has sub as a substring
Contains(s, sub) ==
    \E i \in 1..(Len(s) - Len(sub) + 1) : SubSeq(s, i, i + Len(sub) - 1) = sub

\* C9: an API-client operation issues exactly one HTTP request; a non-2xx
\* answer makes it fail with an error carrying the status and the body text.
C9_OneRequestNoRetry ==
    lastCall.op # Null =>
        /\ Len(lastCall.requests) = 1
        /\ lastCall.response.status \notin (200..299) \cup {0} =>
            /\ lastCall.outcome.kind = "throw"
            /\ Contains(lastCall.outcome.message, ToString(lastCall.response.status))
            /\ Contains(lastCall.outcome.message, lastCall.response.body)

\* a call was answered 404 with a body text
C9_Witness ==
    /\ lastCall.op = "abortSession"
    /\ lastCall.response = [status |-> 404, body |-> "not found"]
    /\ lastCall.outcome.kind = "throw"

\* C10: when the API-client call of create-session, send-message or abort
\* fails, action() returns a payload of type error carrying the message and
\* does not throw.
C10_WriteFailuresReturned ==
    (/\ actionOut.intent \in {"create-session", "send-message", "abort"}
     /\ \E k \in DOMAIN actionOut.calls :
            actionOut.calls[k].outcome.kind = "throw") =>
        /\ actionOut.kind = "returned"
        /\ actionOut.payload.type = "error"
        /\ actionOut.payload.error = actionOut.calls[1].outcome.message

(***************************************************************************)
(* Properties of the route action (under SpecApi), continued.              *)
(***************************************************************************)
\* the API-client call of the last action() run was answered non-2xx
ActionAnsweredNon2xx ==
    /\ Len(actionOut.calls) = 1
    /\ actionOut.calls[1].response.status \notin (200..299) \cup {0}

\* C11: a send-message whose request the service answers non-2xx (a session
\* it does not know) makes action() return a payload of type error whose
\* error is the failure's message; action() does not throw.
C11_SendFailureReturned ==
    (actionOut.intent = "send-message" /\ ActionAnsweredNon2xx) =>
        /\ actionOut.kind = "returned"
        /\ actionOut.payload.type = "error"
        /\ actionOut.payload.error = actionOut.calls[1].outcome.message
        /\ Contains(actionOut.payload.error,
                    ToString(actionOut.calls[1].response.status))

\* a message was sent to s2 and the service answered 404 "not found"
C11_Witness ==
    /\ actionOut.intent = "send-message"
    /\ actionOut.formData.sessionId = "s2"
    /\ actionOut.calls[1].response = [status |-> 404, body |-> "not found"]
    /\ actionOut.calls[1].requests[1].url = <<"/session/", "s2", "/message">>
    /\ actionOut.kind = "returned"

\* C12: a create-session whose title is empty or absent requests the title
\* "New Chat"; no create request carries an empty title.
C12_DefaultTitle ==
    actionOut.intent = "create-session" =>
        /\ Len(actionOut.calls) = 1
        /\ LET req == actionOut.calls[1].requests[1]
               title == Get(actionOut.formData, "title")
           IN /\ req.method = "POST"
              /\ req.body.title # ""
              /\ title \in {Null, ""} => req.body.title = "New Chat"
              /\ title \notin {Null, ""} => req.body.title = title

\* the form carried title = "" and the request carried "New Chat"
C12_Witness ==
    /\ actionOut.intent = "create-session"
    /\ Has(actionOut.formData, "title")
    /\ actionOut.formData.title = ""
    /\ actionOut.calls[1].requests[1].body = [title |-> "New Chat"]

(***************************************************************************)
(* Properties of the route loaders (under SpecLoader).                     *)
(***************************************************************************)
\* some API-client call of the last loader run failed
LoaderCallFailed ==
    \E k \in DOMAIN loaderOut.calls : loaderOut.calls[k].outcome.kind = "throw"

\* C13: when ?session= names an id that is in no session of the fetched
\* list, the chat loader returns normally with currentSession = null and
\* the fetched list.
C13_UnknownSessionAbsent ==
    (/\ loaderOut.route = "chat"
     /\ loaderOut.query \in SessionIds
     /\ loaderOut.calls[1].outcome.kind = "value"
     /\ Find(loaderOut.calls[1].outcome.value.json, loaderOut.query) = Null) =>
        /\ loaderOut.kind = "returned"
        /\ loaderOut.payload.currentSession = Null
        /\ loaderOut.payload.sessions = loaderOut.calls[1].outcome.value.json

\* C14: a loader whose API-client call fails still returns, with an empty
\* result set (no sessions / no messages on the chat page, no tasks on the
\* tasks page).
C14_ReadFailuresDegrade ==
    (loaderOut.route # Null /\ LoaderCallFailed) =>
        /\ loaderOut.kind = "returned"
        /\ loaderOut.route = "tasks" => loaderOut.payload.tasks = <<>>
        /\ loaderOut.route = "chat" =>
                \/ loaderOut.payload.sessions = <<>>
                \/ loaderOut.payload.messages = <<>>

(***************************************************************************)
(* Properties of the file backend (under SpecFiles).  After an answer,     *)
(* fileLast.before is the file as it was just before the answering step.   *)
(***************************************************************************)
Answered(method) ==
    fileLast.kind = "respond" /\ fileLast.req.method = method

\* C16: a PUT answers 201 only when no file of that name existed, the file
\* then holding the content sent ("" when none was sent); when the file
\* existed the PUT answers 409 (500 on an I/O error) and the content is
\* what it was.
C16_CreateOnlyIfAbsent ==
    Answered("PUT") =>
        LET f == fileLast.req.filename
            body == fileLast.req.body
        IN /\ fileLast.status = 201 =>
                /\ ~fileLast.before.exists
                /\ files[f] = File(IF Has(body, "content") THEN body.content ELSE "")
           /\ (fileLast.before.exists /\ fileLast.status # 500) =>
                /\ fileLast.status = 409
                /\ files[f] = fileLast.before

\* C17: a PATCH with non-empty content c that answers 200 leaves the file
\* with its previous content ("" for a missing file) followed by c.
C17_AppendKeepsPrevious ==
    (Answered("PATCH") /\ fileLast.status = 200) =>
        LET f == fileLast.req.filename
            c == fileLast.req.body.content
            previous == IF fileLast.before.exists
                        THEN fileLast.before.content ELSE ""
        IN /\ c \notin {Null, ""}
           /\ files[f] = File(previous \o c)

(***************************************************************************)
(* Properties of the entrypoint (under SpecEntry).                         *)
(***************************************************************************)
CommandStarted == entry.command.started

\* C18: when the command starts, /workspace is owned by node, auth.json
\* was written (owner node, mode 600, the key) exactly when a key is set,
\* the command runs as node and no setup step had failed; after a failed
\* setup step the command is never started.
C18_SetupBeforeCommand ==
    /\ CommandStarted =>
        /\ entry.pc = "running"
        /\ entry.workspace = "node"
        /\ entry.command = Started("node", env.argv)
        /\ env.key # "" =>
                entry.auth = [exists |-> TRUE, owner |-> "node", mode |-> 600,
                              key |-> env.key]
        /\ env.key = "" => entry.auth = env.auth
        /\ entry.failed = Null
    /\ entry.failed # Null => ~CommandStarted

\* started with a key, a root-owned workspace and no auth.json, the
\* command is running
C18_Witness ==
    /\ CommandStarted
    /\ env.key = "sk-ant-1"
    /\ env.workspace = "root"
    /\ env.auth = Absent
    /\ env.dir = Absent
    /\ entry.auth.exists

(***************************************************************************)
(* Properties of the chat view (under Spec), continued.                    *)
(***************************************************************************)
\* the loader's data has just been handed to the component
LoaderDelivered == last.kind \in {"mount", "revalidate"}

\* C15: whenever the loader delivers a message list, the local list is
\* exactly that list: nothing applied from SSE frames before survives
\* unless the loader's list holds it too.
C15_LoaderListReplacesLocal ==
    LoaderDelivered => messages = last.loaded

\* a revalidation met a local message that came from an SSE frame and is
\* not in the loader's list, and the local list no longer holds it
C15_Witness ==
    /\ last.kind = "revalidate"
    /\ last.session = currentSession
    /\ currentSession # Null
    /\ \E i \in DOMAIN last.local :
        /\ last.local[i] \notin Stored(currentSession)
        /\ \A j \in DOMAIN last.loaded : last.loaded[j] # last.local[i]
        /\ \A j \in DOMAIN messages : messages[j] # last.local[i]

\* a message.part.updated frame was handled last, for a message of the list
PartUpdatedForLocal ==
    /\ Delivered
    /\ EvType = "message.part.updated"
    /\ last.src.session = currentSession
    /\ EvProps.messageID \in IdsOf(last.messages)

\* C19: when the message has a part of the incoming part's type and either
\* no delta came or that part is not a text part, the part is replaced by
\* the incoming part.
C19_PartReplaced ==
    PartUpdatedForLocal =>
        \A i \in DOMAIN last.messages :
            LET k == FindIndex(last.messages[i].parts, EvProps.part.type) IN
            (/\ last.messages[i].info.id = EvProps.messageID
             /\ k > 0
             /\ ~Truthy(EvProps) \/ last.messages[i].parts[k].type # "text") =>
                messages[i].parts[k] = EvProps.part

\* C20: the only part of the message that changes is the first one of the
\* incoming part's type; when the message has no part of that type the
\* incoming part is appended and the other parts stay.
C20_FirstMatchOrAppend ==
    PartUpdatedForLocal =>
        /\ Len(messages) = Len(last.messages)
        /\ \A i \in DOMAIN last.messages :
            LET parts == last.messages[i].parts
                k == FindIndex(parts, EvProps.part.type)
            IN last.messages[i].info.id = EvProps.messageID =>
                IF k = 0
                THEN messages[i].parts = Append(parts, EvProps.part)
                ELSE /\ Len(messages[i].parts) = Len(parts)
                     /\ \A j \in DOMAIN parts :
                            j # k => messages[i].parts[j] = parts[j]

(***************************************************************************)
(* Properties of the message list (under Spec).                            *)
(***************************************************************************)
\* C21: the loader's lists having distinct message ids, no two entries of
\* the local list ever have the same info.id.
C21_KeyedById == DistinctIds(messages)

\* a message.updated for an id the list already held arrived while the list
\* held two messages
C21_Witness ==
    /\ UpdatedForOpenSession
    /\ EvProps.info.id \in IdsOf(last.messages)
    /\ Len(last.messages) = 2
    /\ Len(messages) = 2
    /\ messages # last.messages

\* C22: a frame removes no message and keeps the order: every message the
\* list held is at the position it had, and at most one message is added,
\* behind them.
C22_ArrivalOrder ==
    Delivered =>
        /\ Len(messages) \in {Len(last.messages), Len(last.messages) + 1}
        /\ \A i \in DOMAIN last.messages :
                messages[i].info.id = last.messages[i].info.id

\* the first of two messages was updated and stayed first
C22_Witness ==
    /\ UpdatedForOpenSession
    /\ Len(last.messages) = 2
    /\ last.messages[1].info.id = EvProps.info.id
    /\ messages[1].info = EvProps.info
    /\ messages[1] # last.messages[1]
    /\ messages[2] = last.messages[2]

\* a message.part.updated frame arrived whose messageID the list lacks
PartUpdatedForUnknown ==
    /\ Delivered
    /\ EvType = "message.part.updated"
    /\ EvProps.messageID \notin IdsOf(last.messages)

\* C29: a message.part.updated whose messageID is not in the list leaves
\* the list as it was, by the handler and by its updater alike; nothing of
\* the part is kept.
C29_UnknownMessageDropped ==
    PartUpdatedForUnknown =>
        /\ messages = last.messages
        /\ MessagePartUpdated(last.messages, EvProps) = last.messages

\* a part with a delta arrived for m2 while the open session showed only m1
C29_Witness ==
    /\ PartUpdatedForUnknown
    /\ currentSession # Null
    /\ last.src.session = currentSession
    /\ Has(EvProps, "delta")
    /\ EvProps.delta = "lo"
    /\ EvProps.messageID = "m2"
    /\ IdsOf(messages) = {"m1"}

\* C30: handling the same message.updated frame once more changes nothing:
\* the state the handler left is a fixed point of the handler for that frame.
C30_UpdateIdempotent ==
    (Delivered /\ EvType = "message.updated") =>
        /\ OnMessage([messages |-> messages, isStreaming |-> isStreaming],
                     last.data, last.src.session)
                = [messages |-> messages, isStreaming |-> isStreaming]
        /\ MessageUpdated(MessageUpdated(last.messages, EvProps), EvProps)
                = MessageUpdated(last.messages, EvProps)

\* an update without parts for an unknown id was applied to a list whose
\* other message has parts
C30_Witness ==
    /\ UpdatedForOpenSession
    /\ ~Has(EvProps, "parts")
    /\ EvProps.info.id \notin IdsOf(last.messages)
    /\ Len(last.messages) = 1
    /\ Len(messages) = 2
    /\ messages[2].parts = <<>>

(***************************************************************************)
(* Further properties of the API client (SpecApi) and of the file backend  *)
(* (SpecFiles).  fileLast.creates counts, per file name, the PUT requests   *)
(* answered 201 so far (up to two).                                        *)
(***************************************************************************)
\* C25: the request listMessages sends carries the caller's limit.
C25_LimitSent ==
    lastCall.op = "listMessages" =>
        LET req == lastCall.requests[1] IN
        \/ Has(req, "limit")
        \/ \E i \in DOMAIN req.url : Contains(req.url[i], "limit")
        \/ (req.body # Undefined /\ Has(req.body, "limit"))

\* C28: requests on one file name take effect in some sequential order; no
\* request deletes a file, so in every such order at most one PUT on a name
\* is answered 201.
C28_AtomicPerFile ==
    \A f \in FileNames : fileLast.creates[f] <= 1

(***************************************************************************)
(* Properties of the forms and of the generating flag (SpecAbort, SpecUi,  *)
(* SpecUiFair).                                                            *)
(***************************************************************************)
\* the last run of the route action was for an abort form
AbortRan == actionOut.intent = "abort"

\* C23: an abort makes exactly one call that sends exactly one request,
\* POST /session/<id>/abort, and leaves the view state as it is; a frame that
\* is not a session.status frame leaves the generating flag as it is, and the
\* flag changes in no step other than the delivery of a session.status frame
\* (or the creation or disposal of the component state).
C23_AbortLeavesView ==
    /\ [](AbortRan =>
            /\ Len(actionOut.calls) = 1
            /\ Len(actionOut.calls[1].requests) = 1
            /\ actionOut.calls[1].requests[1].method = "POST"
            /\ actionOut.calls[1].requests[1].url
                    = <<"/session/", actionOut.formData.sessionId, "/abort">>)
    /\ []((Delivered /\ EvType # "session.status") =>
            isStreaming = last.isStreaming)
    /\ [][/\ actionOut' # actionOut => UNCHANGED <<messages, isStreaming>>
          /\ isStreaming' # isStreaming =>
                \/ mounted' # mounted
                \/ /\ last'.kind = "deliver"
                   /\ last'.data.payload.type = "session.status"]_vars

\* the abort of the displayed session was answered, and a message.updated
\* frame for that session then changed the list
C23_Witness ==
    /\ AbortRan
    /\ actionOut.kind = "returned"
    /\ actionOut.formData.sessionId = currentSession
    /\ UpdatedForOpenSession
    /\ messages # last.messages
    /\ ~isStreaming

\* a frame that is not JSON was handled last
InvalidDelivered == last.kind = "invalid"

\* C24: a frame whose data is not JSON changes neither the message list nor
\* the generating flag and leaves its EventSource open; a well-formed frame
\* that follows it on the same connection is handled as any other frame.
C24_BadFrameHarmless ==
    /\ InvalidDelivered =>
            /\ messages = last.messages
            /\ isStreaming = last.isStreaming
            /\ last.src \in openSources
    /\ (Delivered /\ last.afterInvalid) =>
            /\ last.src \in openSources
            /\ [messages |-> messages, isStreaming |-> isStreaming]
                 = OnMessage([messages |-> last.messages,
                              isStreaming |-> last.isStreaming],
                             last.data, last.src.session)

\* right after a frame that is not JSON, a message.updated frame on the
\* same connection added a message to the list
C24_Witness ==
    /\ Delivered
    /\ last.afterInvalid
    /\ EvType = "message.updated"
    /\ Len(messages) = Len(last.messages) + 1

\* a send-message form was submitted last
SendSubmitted == last.kind = "submit" /\ last.formData.intent = "send-message"

\* C26: with a session displayed, the Stop form is offered exactly when the
\* generating flag is true, no send-message form can be submitted while the
\* flag is true or a submission is in flight, and no send-message is
\* submitted while the service reports the displayed session busy.
C26_NoSendWhileGenerating ==
    /\ (mounted /\ currentSession # Null) =>
            /\ StopOffered <=> isStreaming
            /\ (isStreaming \/ isSubmitting) =>
                    \A f \in RenderedForms : f.intent # "send-message"
    /\ SendSubmitted => reported # "busy"

\* the EventSource of the live subscription is open
ConnectionOpen == \E src \in openSources : src.id = effectConn

\* on the open connection of the displayed session, the service reported
\* busy and then idle
IdleAfterBusy ==
    /\ mounted
    /\ currentSession # Null
    /\ ConnectionOpen
    /\ reported = "idle after busy"

====
